---- MODULE Spec2Model ----
(***************************************************************************)
(* A model of src/src/rbsp.rs of h264-reader: the emulation-prevention     *)
(* automaton (find_three), the push filter (RbspDecoder), the pull filter  *)
(* (ByteReader), the one-shot decoder (decode_nal) and the bit reader      *)
(* (BitReader).                                                            *)
(*                                                                         *)
(* Offsets are the code's zero-based offsets; a TLA+ sequence is indexed   *)
(* from 1, so the byte at offset i of chunk is chunk[i + 1].               *)
(***************************************************************************)
EXTENDS Integers, Sequences, FiniteSets, TLC

VARIABLES
    decoder,      \* RbspDecoder: [state]
    nal_reader,   \* the downstream NalHandler: the calls it has received
    pushed,       \* history: the bytes given to push() since the last start()/end()/new()
    lastCall,     \* history: the last call made on the RbspDecoder, with its argument
    lifecycle,    \* history: the start() and end() calls made, and the state before the last
    reader,       \* ByteReader: [state, i]
    inner,        \* ByteReader.inner, the wrapped BufRead: [data, cuts, pos]
    offered,      \* history: what is left of the run the last fill_buf() returned
    out,          \* history: the bytes the caller of ByteReader has consumed
    lastRead,     \* history: the last call made on the ByteReader, with its result
    nal_unit,     \* decode_nal: its argument
    dstate,       \* decode_nal: the DecoderState, [data, owned, index]
    nal_pc,       \* decode_nal: "new", "pushed" (after decoder.push), "returned"
    forwarded,    \* history: the spans decode_nal's RbspDecoder forwarded to the DecoderState
    forwardedAt,  \* history: the offsets of those spans in nal_unit
    src,          \* the byte slice a BitReader reads
    bit_reader,   \* BitReader.reader: [pos, failed]
    ret,          \* history: the last call made on the BitReader, with its result
    twin,         \* history: a BitReader given the same reads and no has_more_rbsp_data
    probes,       \* history: the number of has_more_rbsp_data calls
    pc,           \* the loops, step by step: the statement the control is at
    frame,        \* the loops: *state, *i and chunk of find_three, and what it returns
    session       \* the loops: the object called, the caller's locals and the call's history

pushVars == <<decoder, nal_reader, pushed, lastCall, lifecycle>>

pullVars == <<reader, inner, offered, out, lastRead>>

nalVars == <<nal_unit, dstate, nal_pc, forwarded, forwardedAt>>

bitVars == <<src, bit_reader, ret, twin, probes>>

stepVars == <<pc, frame, session>>

vars == <<decoder, nal_reader, pushed, lastCall, lifecycle,
          reader, inner, offered, out, lastRead,
          nal_unit, dstate, nal_pc, forwarded, forwardedAt,
          src, bit_reader, ret, twin, probes,
          pc, frame, session>>

----------------------------------------------------------------------------
(* Bounds of the model. *)

\* The longest unit (bytes between two lifecycle calls) given to the push filter.
MaxUnitLen == 5

\* The number of start()/end() calls in one run of the push filter.
MaxLifecycle == 2

\* The longest byte sequence the inner source of a ByteReader delivers.
MaxInnerLen == 5

\* The longest buffer ByteReader::read is given (consume takes any part of a run).
MaxReadBuf == 2

\* The longest NAL unit given to decode_nal.
MaxNalLen == 5

\* The longest of the BitReader's sources that are drawn from every sequence of SrcByte.
MaxSrcBytes == 2

\* The greatest codeNum of the sources that hold the code of every small codeNum.
MaxCodeNum == 16

\* The longest run of leading 0 bits of the sources built from a prefix length.
MaxLeadingZeros == 33

\* The number of has_more_rbsp_data calls in one run of the BitReader.
MaxProbes == 2

(* The byte values the inputs are drawn from: 0x00 and 0x03, the two bytes *)
(* find_three tells apart, and 0x01 standing for every other byte.         *)
Byte == {0, 1, 3}

\* The NAL header start() is called with: 0x67.
Header == {103}

BoundedSeq(S, n) == UNION {[1..k -> S] : k \in 0..n}

RECURSIVE Concat(_)
Concat(ss) == IF ss = <<>> THEN <<>> ELSE Head(ss) \o Concat(Tail(ss))

IsPrefix(a, b) == Len(a) <= Len(b) /\ SubSeq(b, 1, Len(a)) = a

\* chunk[lo..hi) in the code's zero-based offsets.
Slice(chunk, lo, hi) == SubSeq(chunk, lo + 1, hi)

----------------------------------------------------------------------------
(* enum ParseState *)
ParseState == {"Start", "OneZero", "TwoZero", "Skip"}

(* memchr::memchr(needle, haystack): the offset of the first needle, or -1 *)
(* for None.                                                               *)
memchr(needle, haystack) ==
    IF \E j \in 1..Len(haystack) : haystack[j] = needle
    THEN (CHOOSE j \in 1..Len(haystack) :
              /\ haystack[j] = needle
              /\ \A k \in 1..(j - 1) : haystack[k] # needle) - 1
    ELSE -1

(* A mutant of find_three: a 00 in TwoZero leaves the state TwoZero, the   *)
(* count of 00 bytes does not begin again.                                 *)
RECURSIVE find_three_counts_on(_, _, _)
find_three_counts_on(state, i, chunk) ==
    IF ~(i < Len(chunk))
    THEN [found |-> FALSE, state |-> state, i |-> i, panic |-> FALSE]
    ELSE CASE state = "Start" ->
                LET nonzero_len == memchr(0, Slice(chunk, i, Len(chunk)))
                IN  IF nonzero_len # -1
                    THEN find_three_counts_on("OneZero", i + nonzero_len + 1, chunk)
                    ELSE [found |-> FALSE, state |-> "Start", i |-> Len(chunk),
                          panic |-> FALSE]
           [] state = "OneZero" ->
                IF chunk[i + 1] = 0
                THEN find_three_counts_on("TwoZero", i + 1, chunk)
                ELSE find_three_counts_on("Start", i + 1, chunk)
           [] state = "TwoZero" ->
                IF chunk[i + 1] = 3
                THEN [found |-> TRUE, state |-> "TwoZero", i |-> i, panic |-> FALSE]
                ELSE IF chunk[i + 1] = 0
                THEN find_three_counts_on("TwoZero", i + 1, chunk)
                ELSE find_three_counts_on("Start", i + 1, chunk)
           [] OTHER ->
                [found |-> FALSE, state |-> state, i |-> i, panic |-> TRUE]

(* find_three(state, i, chunk): the values of *state and *i when it        *)
(* returns, and what it returns (found). panic: it reached unreachable!(). *)
RECURSIVE find_three(_, _, _)
find_three(state, i, chunk) ==
    IF ~(i < Len(chunk))
    THEN [found |-> FALSE, state |-> state, i |-> i, panic |-> FALSE]
    ELSE CASE state = "Start" ->
                LET nonzero_len == memchr(0, Slice(chunk, i, Len(chunk)))
                IN  IF nonzero_len # -1
                    THEN find_three("OneZero", i + nonzero_len + 1, chunk)
                    ELSE [found |-> FALSE, state |-> "Start", i |-> Len(chunk),
                          panic |-> FALSE]
           [] state = "OneZero" ->
                IF chunk[i + 1] = 0
                THEN find_three("TwoZero", i + 1, chunk)
                ELSE find_three("Start", i + 1, chunk)
           [] state = "TwoZero" ->
                IF chunk[i + 1] = 3
                THEN [found |-> TRUE, state |-> "TwoZero", i |-> i, panic |-> FALSE]
                ELSE find_three("Start", i + 1, chunk)
           [] OTHER ->
                [found |-> FALSE, state |-> state, i |-> i, panic |-> TRUE]

----------------------------------------------------------------------------
(* RbspDecoder, the push filter, over a NalHandler that records its calls: *)
(* nal_reader.started and .ended count the start() and end() calls,        *)
(* .header is the header of the last start(), .spans are the push() calls  *)
(* received since the last start()/end().                                  *)

\* A mutant of emit: the empty span is forwarded too.
emit_unguarded(buf) == <<buf>>

\* RbspDecoder::emit: the calls made on nal_reader.
emit(buf) == IF buf # <<>> THEN <<buf>> ELSE <<>>

\* Where emit's span begins: the offset off in the buffer given to push().
emit_at(buf, off) == IF buf # <<>> THEN <<off>> ELSE <<>>

\* The offsets in buf = &three_onward[1..] as offsets in the buffer it was cut from.
shifted(offsets, by) == [k \in 1..Len(offsets) |-> offsets[k] + by]

(* A mutant of push: what is left of buf after the last match is forwarded *)
(* up to the 00 bytes it ends with, which are held back.                   *)
RECURSIVE push_loop_holds_back(_, _)
push_loop_holds_back(state, buf) ==
    IF 0 < Len(buf)
    THEN LET r == find_three(state, 0, buf)
         IN  IF r.panic
             THEN [state |-> r.state, spans |-> <<>>, at |-> <<>>, matches |-> 0, panic |-> TRUE]
             ELSE IF r.found
             THEN LET rbsp == Slice(buf, 0, r.i)
                      three_onward == Slice(buf, r.i, Len(buf))
                      rest == push_loop_holds_back("Start", Tail(three_onward))
                  IN  [rest EXCEPT !.spans = emit(rbsp) \o @,
                                   !.at = emit_at(rbsp, 0) \o shifted(@, r.i + 1),
                                   !.matches = @ + 1]
             ELSE LET held == IF r.state = "OneZero" THEN 1
                              ELSE IF r.state = "TwoZero" THEN 2 ELSE 0
                  IN  [state |-> r.state,
                       spans |-> emit(Slice(buf, 0, Len(buf) - held)),
                       at |-> emit_at(Slice(buf, 0, Len(buf) - held), 0),
                       matches |-> 0, panic |-> FALSE]
    ELSE [state |-> state, spans |-> emit(buf), at |-> emit_at(buf, 0), matches |-> 0,
          panic |-> FALSE]

(* The loop of RbspDecoder::push and the emit that follows it: the state   *)
(* when push returns, the spans it forwarded, in order, the offset in buf  *)
(* of each (at), and the number of times find_three returned true          *)
(* (matches).                                                              *)
RECURSIVE push_loop(_, _)
push_loop(state, buf) ==
    IF 0 < Len(buf)
    THEN LET r == find_three(state, 0, buf)
         IN  IF r.panic
             THEN [state |-> r.state, spans |-> <<>>, at |-> <<>>, matches |-> 0, panic |-> TRUE]
             ELSE IF r.found
             THEN LET rbsp == Slice(buf, 0, r.i)
                      three_onward == Slice(buf, r.i, Len(buf))
                      rest == push_loop("Start", Tail(three_onward))
                  IN  [rest EXCEPT !.spans = emit(rbsp) \o @,
                                   !.at = emit_at(rbsp, 0) \o shifted(@, r.i + 1),
                                   !.matches = @ + 1]
             ELSE [state |-> r.state, spans |-> emit(buf), at |-> emit_at(buf, 0),
                   matches |-> 0, panic |-> FALSE]
    ELSE [state |-> state, spans |-> emit(buf), at |-> emit_at(buf, 0), matches |-> 0,
          panic |-> FALSE]

(* The matches of the unit so far, with those of a push() that had r. *)
MatchesWith(r) == (IF lastCall.op = "push" THEN lastCall.matches ELSE 0) + r.matches

\* A mutant of start: the automaton is not reset.
start_keeps_state(header) ==
    /\ lifecycle.starts + lifecycle.ends < MaxLifecycle
    /\ decoder' = decoder
    /\ nal_reader' = [nal_reader EXCEPT !.started = @ + 1, !.header = header,
                                        !.spans = <<>>]
    /\ pushed' = <<>>
    /\ lastCall' = [op |-> "start", header |-> header]
    /\ lifecycle' = [lifecycle EXCEPT !.starts = @ + 1, !.stateBefore = decoder.state]
    /\ UNCHANGED pullVars
    /\ UNCHANGED nalVars
    /\ UNCHANGED bitVars
    /\ UNCHANGED stepVars

\* RbspDecoder::start
start(header) ==
    /\ lifecycle.starts + lifecycle.ends < MaxLifecycle
    /\ decoder' = [decoder EXCEPT !.state = "Start"]
    /\ nal_reader' = [nal_reader EXCEPT !.started = @ + 1, !.header = header,
                                        !.spans = <<>>]
    /\ pushed' = <<>>
    /\ lastCall' = [op |-> "start", header |-> header]
    /\ lifecycle' = [lifecycle EXCEPT !.starts = @ + 1, !.stateBefore = decoder.state]
    /\ UNCHANGED pullVars
    /\ UNCHANGED nalVars
    /\ UNCHANGED bitVars
    /\ UNCHANGED stepVars

\* A mutant of push: the automaton restarts at every call.
push_forgets_state(buf) ==
    /\ Len(pushed) + Len(buf) <= MaxUnitLen
    /\ \E r \in {push_loop("Start", buf)} :
           /\ decoder' = [decoder EXCEPT !.state = r.state]
           /\ nal_reader' = [nal_reader EXCEPT !.spans = @ \o r.spans]
           /\ lastCall' = [op |-> "push", buf |-> buf, panic |-> r.panic,
                           matches |-> MatchesWith(r)]
    /\ pushed' = pushed \o buf
    /\ UNCHANGED lifecycle
    /\ UNCHANGED pullVars
    /\ UNCHANGED nalVars
    /\ UNCHANGED bitVars
    /\ UNCHANGED stepVars

\* RbspDecoder::push
push(buf) ==
    /\ Len(pushed) + Len(buf) <= MaxUnitLen
    /\ \E r \in {push_loop(decoder.state, buf)} :
           /\ decoder' = [decoder EXCEPT !.state = r.state]
           /\ nal_reader' = [nal_reader EXCEPT !.spans = @ \o r.spans]
           /\ lastCall' = [op |-> "push", buf |-> buf, panic |-> r.panic,
                           matches |-> MatchesWith(r)]
    /\ pushed' = pushed \o buf
    /\ UNCHANGED lifecycle
    /\ UNCHANGED pullVars
    /\ UNCHANGED nalVars
    /\ UNCHANGED bitVars
    /\ UNCHANGED stepVars

\* RbspDecoder::end
end ==
    /\ lifecycle.starts + lifecycle.ends < MaxLifecycle
    /\ decoder' = [decoder EXCEPT !.state = "Start"]
    /\ nal_reader' = [nal_reader EXCEPT !.ended = @ + 1, !.spans = <<>>]
    /\ pushed' = <<>>
    /\ lastCall' = [op |-> "end"]
    /\ lifecycle' = [lifecycle EXCEPT !.ends = @ + 1, !.stateBefore = decoder.state]
    /\ UNCHANGED pullVars
    /\ UNCHANGED nalVars
    /\ UNCHANGED bitVars
    /\ UNCHANGED stepVars


----------------------------------------------------------------------------
(* The BufRead that a ByteReader wraps: it delivers inner.data in chunks   *)
(* that end at the offsets inner.cuts (and at the end of the data), as the *)
(* Chain of two slices of tests::byte_reader does; inner.pos bytes have    *)
(* been consumed.                                                          *)

\* The end of the chunk that holds offset pos.
ChunkEnd(inn) ==
    LET ends == {c \in inn.cuts : c > inn.pos} \cup {Len(inn.data)}
    IN  CHOOSE c \in ends : \A d \in ends : c <= d

\* inner.fill_buf(): what is left of the current chunk; empty at the end of the data.
inner_fill_buf(inn) == Slice(inn.data, inn.pos, ChunkEnd(inn))

\* inner.consume(amt)
inner_consume(inn, amt) == [inn EXCEPT !.pos = @ + amt]

\* A mutant of ByteReader::new: the adapter starts in Start, discarding no byte.
new_reader_start == [state |-> "Start", i |-> 0]

\* ByteReader::new
new_reader == [state |-> "Skip", i |-> 0]

(* A mutant of the slow path of fill_buf: the automaton restarts at Start  *)
(* on every chunk of the inner source.                                     *)
slow_step_forgets(rd, chunk) ==
    LET r == find_three("Start", rd.i, chunk)
    IN  [state |-> IF r.found THEN "Skip" ELSE r.state, i |-> r.i, panic |-> r.panic]

(* A mutant of the slow path of fill_buf: on a match the state becomes     *)
(* Start, so that the matched byte is not discarded.                       *)
slow_step_keeps_three(rd, chunk) ==
    LET r == find_three(rd.state, rd.i, chunk)
    IN  [state |-> IF r.found THEN "Start" ELSE r.state, i |-> r.i, panic |-> r.panic]

(* One pass of the slow path of fill_buf over a non-empty chunk, the state *)
(* not Skip: find_three, and Skip on a match.                              *)
slow_step(rd, chunk) ==
    LET r == find_three(rd.state, rd.i, chunk)
    IN  [state |-> IF r.found THEN "Skip" ELSE r.state, i |-> r.i, panic |-> r.panic]

(* ByteReader::fill_buf: the adapter and its inner source when it returns, *)
(* and the run it returns. panic: find_three reached unreachable!(), or    *)
(* the run's end lies past the inner chunk.                                *)
RECURSIVE fill_buf_loop(_, _)
fill_buf_loop(rd, inn) ==
    IF rd.i = 0
    THEN LET chunk == inner_fill_buf(inn)
         IN  IF chunk = <<>>
             THEN [rd |-> rd, inn |-> inn, run |-> <<>>, panic |-> FALSE]
             ELSE IF rd.state = "Skip"
             THEN fill_buf_loop([rd EXCEPT !.state = "Start"], inner_consume(inn, 1))
             ELSE LET r == slow_step(rd, chunk)
                  IN  IF r.panic
                      THEN [rd |-> rd, inn |-> inn, run |-> <<>>, panic |-> TRUE]
                      ELSE fill_buf_loop([state |-> r.state, i |-> r.i], inn)
    ELSE LET chunk == inner_fill_buf(inn)
         IN  IF rd.i <= Len(chunk)
             THEN [rd |-> rd, inn |-> inn, run |-> Slice(chunk, 0, rd.i), panic |-> FALSE]
             ELSE [rd |-> rd, inn |-> inn, run |-> <<>>, panic |-> TRUE]

(* std::io::Read::read_to_end over a ByteReader: read() until it returns   *)
(* 0; every read() here takes the whole run.                               *)
RECURSIVE read_to_end(_, _)
read_to_end(rd, inn) ==
    LET f == fill_buf_loop(rd, inn)
    IN  IF f.run = <<>>
        THEN <<>>
        ELSE f.run \o read_to_end([f.rd EXCEPT !.i = @ - Len(f.run)],
                                  inner_consume(f.inn, Len(f.run)))

\* ByteReader::fill_buf
fill_buf ==
    \E f \in {fill_buf_loop(reader, inner)} :
        /\ reader' = f.rd
        /\ inner' = f.inn
        /\ offered' = f.run
        /\ lastRead' = [op |-> "fill_buf", n |-> Len(f.run), panic |-> f.panic]
        /\ UNCHANGED out
        /\ UNCHANGED pushVars
        /\ UNCHANGED nalVars
        /\ UNCHANGED bitVars
        /\ UNCHANGED stepVars

\* A mutant of consume: the inner source is not advanced.
consume_keeps_inner(amt) ==
    /\ amt <= Len(offered)
    /\ IF amt <= reader.i
       THEN /\ reader' = [reader EXCEPT !.i = @ - amt]
            /\ inner' = inner
            /\ out' = out \o SubSeq(offered, 1, amt)
            /\ offered' = SubSeq(offered, amt + 1, Len(offered))
            /\ lastRead' = [op |-> "consume", n |-> amt, panic |-> FALSE]
       ELSE /\ lastRead' = [op |-> "consume", n |-> amt, panic |-> TRUE]
            /\ UNCHANGED <<reader, inner, out, offered>>
    /\ UNCHANGED pushVars
    /\ UNCHANGED nalVars
    /\ UNCHANGED bitVars
    /\ UNCHANGED stepVars

(* ByteReader::consume, called as BufRead asks: with no more than the run  *)
(* fill_buf returned. panic: checked_sub(amt) is None.                     *)
consume(amt) ==
    /\ amt <= Len(offered)
    /\ IF amt <= reader.i
       THEN /\ reader' = [reader EXCEPT !.i = @ - amt]
            /\ inner' = inner_consume(inner, amt)
            /\ out' = out \o SubSeq(offered, 1, amt)
            /\ offered' = SubSeq(offered, amt + 1, Len(offered))
            /\ lastRead' = [op |-> "consume", n |-> amt, panic |-> FALSE]
       ELSE /\ lastRead' = [op |-> "consume", n |-> amt, panic |-> TRUE]
            /\ UNCHANGED <<reader, inner, out, offered>>
    /\ UNCHANGED pushVars
    /\ UNCHANGED nalVars
    /\ UNCHANGED bitVars
    /\ UNCHANGED stepVars

(* ByteReader::read into a buffer of buflen bytes: fill_buf, the copy and  *)
(* consume.                                                                *)
read(buflen) ==
    \E f \in {fill_buf_loop(reader, inner)} :
        LET amt == IF buflen < Len(f.run) THEN buflen ELSE Len(f.run)
        IN  /\ reader' = [f.rd EXCEPT !.i = @ - amt]
            /\ inner' = inner_consume(f.inn, amt)
            /\ out' = out \o SubSeq(f.run, 1, amt)
            /\ offered' = SubSeq(f.run, amt + 1, Len(f.run))
            /\ lastRead' = [op |-> "read", n |-> amt, panic |-> f.panic]
            /\ UNCHANGED pushVars
            /\ UNCHANGED nalVars
            /\ UNCHANGED bitVars
            /\ UNCHANGED stepVars

----------------------------------------------------------------------------
(* decode_nal: an RbspDecoder (the variable decoder) over a DecoderState   *)
(* (the variable dstate): data is the Cow's bytes, owned tells Cow::Owned  *)
(* from Cow::Borrowed, index is the write offset.                          *)

\* DecoderState::new(Cow::Borrowed(nal_unit))
new_DecoderState(data) ==
    [data |-> data, owned |-> FALSE, index |-> 0, panic |-> FALSE, writes |-> <<>>]

(* A mutant of DecoderState::push: the write offset is advanced two bytes  *)
(* past the span.                                                          *)
DecoderState_push_leaves_gap(ds, buf) ==
    LET lo == ds.index
        hi == ds.index + Len(buf)
        dest == [lo |-> lo, hi |-> hi, len |-> Len(ds.data)]
    IN  IF hi > Len(ds.data)
        THEN [ds EXCEPT !.panic = TRUE, !.writes = Append(@, dest)]
        ELSE IF Slice(ds.data, lo, hi) # buf
        THEN [ds EXCEPT !.data = Slice(ds.data, 0, lo) \o buf
                                     \o Slice(ds.data, hi, Len(ds.data)),
                        !.owned = TRUE,
                        !.index = hi + 2,
                        !.writes = Append(@, dest)]
        ELSE [ds EXCEPT !.index = hi + 2, !.writes = Append(@, dest)]

(* DecoderState::push: the span is compared with the bytes at the write    *)
(* offset, and copied there (to_mut: the Cow becomes Owned) when they      *)
(* differ. panic: the range dest ends past the data. writes: the history   *)
(* of the ranges dest and of the data's length at each call.               *)
DecoderState_push(ds, buf) ==
    LET lo == ds.index
        hi == ds.index + Len(buf)
        dest == [lo |-> lo, hi |-> hi, len |-> Len(ds.data)]
    IN  IF hi > Len(ds.data)
        THEN [ds EXCEPT !.panic = TRUE, !.writes = Append(@, dest)]
        ELSE IF Slice(ds.data, lo, hi) # buf
        THEN [ds EXCEPT !.data = Slice(ds.data, 0, lo) \o buf
                                     \o Slice(ds.data, hi, Len(ds.data)),
                        !.owned = TRUE,
                        !.index = hi,
                        !.writes = Append(@, dest)]
        ELSE [ds EXCEPT !.index = hi, !.writes = Append(@, dest)]

\* DecoderState::end: an Owned buffer is truncated to the write offset.
DecoderState_end(ds) ==
    IF ds.owned THEN [ds EXCEPT !.data = Slice(ds.data, 0, ds.index)] ELSE ds

\* The push() calls of the spans, in order, on a DecoderState.
RECURSIVE DecoderState_pushes(_, _)
DecoderState_pushes(ds, spans) ==
    IF spans = <<>> \/ ds.panic
    THEN ds
    ELSE DecoderState_pushes(DecoderState_push(ds, Head(spans)), Tail(spans))

\* decode_nal, to its decoder.push(&mut ctx, nal_unit).
decode_nal_push ==
    /\ nal_pc = "new"
    /\ \E r \in {push_loop(decoder.state, nal_unit)} :
          /\ decoder' = [decoder EXCEPT !.state = r.state]
          /\ dstate' = DecoderState_pushes(dstate, r.spans)
          /\ forwarded' = r.spans
          /\ forwardedAt' = r.at
    /\ nal_pc' = "pushed"
    /\ UNCHANGED <<nal_unit, nal_reader, pushed, lastCall, lifecycle>>
    /\ UNCHANGED pullVars
    /\ UNCHANGED bitVars
    /\ UNCHANGED stepVars

\* decode_nal, from decoder.end(&mut ctx) to its return of the handler's data.
decode_nal_end ==
    /\ nal_pc = "pushed"
    /\ decoder' = [decoder EXCEPT !.state = "Start"]
    /\ dstate' = DecoderState_end(dstate)
    /\ nal_pc' = "returned"
    /\ UNCHANGED <<nal_unit, forwarded, forwardedAt, nal_reader, pushed, lastCall, lifecycle>>
    /\ UNCHANGED pullVars
    /\ UNCHANGED bitVars
    /\ UNCHANGED stepVars

----------------------------------------------------------------------------
(* BitReader over a byte slice. bit_reader.pos is the position of          *)
(* self.reader (the bitstream_io reader: the source and its bit queue), in *)
(* bits from the start of src; bit_reader.failed, that a read returned an  *)
(* I/O error, after which the position is not defined and the reader is    *)
(* used no more. A u32 is held as two 16-bit halves, [hi, lo]: its value   *)
(* is hi * 2^16 + lo.                                                      *)

Pow2(n) == 2 ^ n

NumBits(bytes) == 8 * Len(bytes)

\* The bit at position q: big-endian, the most significant bit of a byte first.
Bit(bytes, q) == (bytes[(q \div 8) + 1] \div Pow2(7 - (q % 8))) % 2

\* The value of the n <= 16 bits from position q, the first bit the most significant.
RECURSIVE BitsValue(_, _, _)
BitsValue(bytes, q, n) ==
    IF n = 0 THEN 0 ELSE 2 * BitsValue(bytes, q, n - 1) + Bit(bytes, q + n - 1)

(* bitstream_io's read_unary1: the number of 0 bits before the next 1 bit, *)
(* which is consumed too; UnexpectedEof (ok false) at the end of the       *)
(* source. Called at self.reader.read_unary1() and throwaway.read_unary1().*)
RECURSIVE read_unary1(_, _, _)
read_unary1(bytes, q, count) ==
    IF q >= NumBits(bytes)
    THEN [ok |-> FALSE, count |-> count, pos |-> q]
    ELSE IF Bit(bytes, q) = 1
    THEN [ok |-> TRUE, count |-> count, pos |-> q + 1]
    ELSE read_unary1(bytes, q + 1, count + 1)

(* BitReader::read_u32(bit_count), bit_count in 1..32: bitstream_io's      *)
(* read; UnexpectedEof (ok false) when fewer bits are left.                *)
read_u32(bytes, q, bit_count) ==
    IF q + bit_count > NumBits(bytes)
    THEN [ok |-> FALSE, value |-> [hi |-> 0, lo |-> 0], pos |-> q]
    ELSE LET nhi == IF bit_count > 16 THEN bit_count - 16 ELSE 0
         IN  [ok |-> TRUE,
              value |-> [hi |-> BitsValue(bytes, q, nhi),
                         lo |-> BitsValue(bytes, q + nhi, bit_count - nhi)],
              pos |-> q + bit_count]

\* 1u32 << count, count in 0..31.
shl1(count) ==
    IF count < 16 THEN [hi |-> 0, lo |-> Pow2(count)]
                  ELSE [hi |-> Pow2(count - 16), lo |-> 0]

\* a - b on u32, wrapping; overflow tells that it wrapped.
sub_u32(a, b) ==
    LET borrow == IF a.lo < b.lo THEN 1 ELSE 0
        lo == a.lo - b.lo + 65536 * borrow
        hi == a.hi - b.hi - borrow
    IN  [hi |-> hi % 65536, lo |-> lo, overflow |-> hi < 0]

\* a + b on u32, wrapping; overflow tells that it wrapped.
add_u32(a, b) ==
    LET lo == a.lo + b.lo
        hi == a.hi + b.hi + (lo \div 65536)
    IN  [hi |-> hi % 65536, lo |-> lo % 65536, overflow |-> hi >= 65536]

\* A mutant of ue_value: the - 1 is left out.
ue_value_no_minus_one(count, val) ==
    LET s == add_u32(shl1(count), val)
    IN  [hi |-> s.hi, lo |-> s.lo, overflow |-> s.overflow]

\* (1 << count) - 1 + val of read_ue.
ue_value(count, val) ==
    LET d == sub_u32(shl1(count), [hi |-> 0, lo |-> 1])
        s == add_u32(d, val)
    IN  [hi |-> s.hi, lo |-> s.lo, overflow |-> d.overflow \/ s.overflow]

\* read_ue's bound on the unary prefix.
MaxUeCount == 31

\* What read_ue returns without a value: the error, at position q.
ue_err(err, q) ==
    [err |-> err, value |-> [hi |-> 0, lo |-> 0], pos |-> q, overflow |-> FALSE]

\* read_ue after self.read_u32(count, name) returned v.
ue_after_suffix(count, v) ==
    IF ~v.ok
    THEN ue_err("ReaderErrorFor", v.pos)
    ELSE LET r == ue_value(count, v.value)
         IN  [err |-> "", value |-> [hi |-> r.hi, lo |-> r.lo], pos |-> v.pos,
              overflow |-> r.overflow]

\* A mutant of the guard of read_ue: count > 32.
ue_after_prefix_late_guard(bytes, u) ==
    IF ~u.ok
    THEN ue_err("ReaderErrorFor", u.pos)
    ELSE IF u.count > MaxUeCount + 1
    THEN ue_err("ExpGolombTooLarge", u.pos)
    ELSE IF u.count > 0
    THEN ue_after_suffix(u.count, read_u32(bytes, u.pos, u.count))
    ELSE [err |-> "", value |-> [hi |-> 0, lo |-> 0], pos |-> u.pos, overflow |-> FALSE]

\* read_ue after self.reader.read_unary1() returned u.
ue_after_prefix(bytes, u) ==
    IF ~u.ok
    THEN ue_err("ReaderErrorFor", u.pos)
    ELSE IF u.count > MaxUeCount
    THEN ue_err("ExpGolombTooLarge", u.pos)
    ELSE IF u.count > 0
    THEN ue_after_suffix(u.count, read_u32(bytes, u.pos, u.count))
    ELSE [err |-> "", value |-> [hi |-> 0, lo |-> 0], pos |-> u.pos, overflow |-> FALSE]

(* BitReader::read_ue at position q: err is "" for Ok(value), and else the *)
(* BitReaderError; pos is the reader's position afterwards.                *)
read_ue_at(bytes, q) == ue_after_prefix(bytes, read_unary1(bytes, q, 0))

\* A mutant of golomb_to_signed: the + (val & 0x1) is left out.
golomb_to_signed_floor(val) ==
    LET and1 == val.lo % 2
        sign == (and1 * 2) - 1
        shr1 == val.hi * 32768 + (val.lo \div 2)
    IN  [value |-> shr1 * sign, overflow |-> FALSE]

(* golomb_to_signed(val), val a u32: sign is ((val & 0x1) as i32) << 1) - 1 *)
(* and the result ((val >> 1) as i32 + (val & 0x1) as i32) * sign, on i32.  *)
(* overflow: the sum passed i32::MAX (a panic, or the wrapped -2^31).       *)
golomb_to_signed(val) ==
    LET and1 == val.lo % 2
        sign == (and1 * 2) - 1
        shr1 == val.hi * 32768 + (val.lo \div 2)
    IN  IF shr1 = 2147483647 /\ and1 = 1
        THEN [value |-> -2147483647 - 1, overflow |-> TRUE]
        ELSE [value |-> (shr1 + and1) * sign, overflow |-> FALSE]

\* A mutant of more_rbsp_data: the bit at the cursor is not skipped.
more_rbsp_data_no_skip(bytes, q) == read_unary1(bytes, q, 0).ok

(* The closure of has_more_rbsp_data on throwaway, a clone of the reader   *)
(* at position q: skip(1), then read_unary1; TRUE for Ok, FALSE for        *)
(* UnexpectedEof, the one error a slice gives.                             *)
more_rbsp_data(bytes, q) ==
    IF q + 1 > NumBits(bytes)
    THEN FALSE
    ELSE read_unary1(bytes, q + 1, 0).ok

\* The reader after an I/O error.
Failed(rd) == [rd EXCEPT !.failed = TRUE]

\* BitReader::read_bool on the reader rd: the reader afterwards and what is returned.
read_bool_on(bytes, rd) ==
    IF rd.pos + 1 > NumBits(bytes)
    THEN [rd |-> Failed(rd),
          ret |-> [op |-> "read_bool", from |-> rd.pos, err |-> "ReaderErrorFor",
                   value |-> FALSE]]
    ELSE [rd |-> [rd EXCEPT !.pos = @ + 1],
          ret |-> [op |-> "read_bool", from |-> rd.pos, err |-> "",
                   value |-> Bit(bytes, rd.pos) = 1]]

\* BitReader::read_u8(bit_count), bit_count in 1..8, on the reader rd.
read_u8_on(bytes, rd, bit_count) ==
    IF rd.pos + bit_count > NumBits(bytes)
    THEN [rd |-> Failed(rd),
          ret |-> [op |-> "read_u8", from |-> rd.pos, err |-> "ReaderErrorFor",
                   value |-> 0]]
    ELSE [rd |-> [rd EXCEPT !.pos = @ + bit_count],
          ret |-> [op |-> "read_u8", from |-> rd.pos, err |-> "",
                   value |-> BitsValue(bytes, rd.pos, bit_count)]]

\* BitReader::read_ue on the reader rd.
read_ue_on(bytes, rd) ==
    LET r == read_ue_at(bytes, rd.pos)
    IN  [rd |-> [pos |-> r.pos, failed |-> r.err = "ReaderErrorFor"],
         ret |-> [op |-> "read_ue", from |-> rd.pos, err |-> r.err, value |-> r.value,
                  overflow |-> r.overflow]]

(* BitReader::read_se on the reader rd: golomb_to_signed of what read_ue    *)
(* returned (codeNum), or read_ue's error.                                 *)
read_se_on(bytes, rd) ==
    LET r == read_ue_at(bytes, rd.pos)
        g == golomb_to_signed(r.value)
    IN  [rd |-> [pos |-> r.pos, failed |-> r.err = "ReaderErrorFor"],
         ret |-> [op |-> "read_se", from |-> rd.pos, err |-> r.err,
                  codeNum |-> r.value,
                  value |-> IF r.err = "" THEN g.value ELSE 0,
                  overflow |-> r.overflow \/ (r.err = "" /\ g.overflow)]]

(* A read on the BitReader: on bit_reader, and on twin, the reader that    *)
(* gets the same reads and no has_more_rbsp_data.                          *)
Reads(real, shadow) ==
    /\ bit_reader' = real.rd
    /\ ret' = real.ret
    /\ twin' = shadow
    /\ UNCHANGED <<src, probes>>
    /\ UNCHANGED pushVars
    /\ UNCHANGED pullVars
    /\ UNCHANGED nalVars
    /\ UNCHANGED stepVars

\* BitReader::read_bool
read_bool ==
    /\ ~bit_reader.failed
    /\ \E real \in {read_bool_on(src, bit_reader)} :
       \E shadow \in {read_bool_on(src, twin.rd)} : Reads(real, shadow)

\* BitReader::read_u8
read_u8(bit_count) ==
    /\ ~bit_reader.failed
    /\ \E real \in {read_u8_on(src, bit_reader, bit_count)} :
       \E shadow \in {read_u8_on(src, twin.rd, bit_count)} : Reads(real, shadow)

\* BitReader::read_ue
read_ue ==
    /\ ~bit_reader.failed
    /\ \E real \in {read_ue_on(src, bit_reader)} :
       \E shadow \in {read_ue_on(src, twin.rd)} : Reads(real, shadow)

\* BitReader::read_se
read_se ==
    /\ ~bit_reader.failed
    /\ \E real \in {read_se_on(src, bit_reader)} :
       \E shadow \in {read_se_on(src, twin.rd)} : Reads(real, shadow)

(* A mutant of has_more_rbsp_data: the lookahead runs on self.reader, not  *)
(* on a clone of it.                                                       *)
has_more_rbsp_data_on_self ==
    /\ ~bit_reader.failed
    /\ probes < MaxProbes
    /\ \E u \in {read_unary1(src, bit_reader.pos + 1, 0)} :
          bit_reader' = [bit_reader EXCEPT !.pos = u.pos]
    /\ ret' = [op |-> "has_more_rbsp_data", from |-> bit_reader.pos, err |-> "",
               value |-> more_rbsp_data(src, bit_reader.pos)]
    /\ probes' = probes + 1
    /\ UNCHANGED <<src, twin>>
    /\ UNCHANGED pushVars
    /\ UNCHANGED pullVars
    /\ UNCHANGED nalVars
    /\ UNCHANGED stepVars

(* BitReader::has_more_rbsp_data: throwaway is a clone, self.reader is not *)
(* touched.                                                                *)
has_more_rbsp_data ==
    /\ ~bit_reader.failed
    /\ probes < MaxProbes
    /\ ret' = [op |-> "has_more_rbsp_data", from |-> bit_reader.pos, err |-> "",
               value |-> more_rbsp_data(src, bit_reader.pos)]
    /\ probes' = probes + 1
    /\ UNCHANGED <<src, bit_reader, twin>>
    /\ UNCHANGED pushVars
    /\ UNCHANGED pullVars
    /\ UNCHANGED nalVars
    /\ UNCHANGED stepVars

----------------------------------------------------------------------------
(* The byte sources of the BitReader.                                      *)

\* The bits, padded with 0 bits to whole bytes, as bytes.
Pack(bits) ==
    LET n == (Len(bits) + 7) \div 8
        B(q) == IF q <= Len(bits) THEN bits[q] ELSE 0
    IN  [j \in 1..n |->
            128 * B(8 * j - 7) + 64 * B(8 * j - 6) + 32 * B(8 * j - 5) + 16 * B(8 * j - 4)
            + 8 * B(8 * j - 3) + 4 * B(8 * j - 2) + 2 * B(8 * j - 1) + B(8 * j)]

\* m in binary, the most significant bit first.
RECURSIVE BinaryOf(_)
BinaryOf(m) == IF m = 0 THEN <<>> ELSE BinaryOf(m \div 2) \o <<m % 2>>

(* The Exp-Golomb code ue(v) of codeNum (H.264 9.1): codeNum + 1 in        *)
(* binary, after as many 0 bits as it has bits less one.                   *)
EgEncode(codeNum) ==
    LET b == BinaryOf(codeNum + 1)
    IN  [j \in 1..(Len(b) - 1) |-> 0] \o b

\* k 0 bits, a 1 bit, and k suffix bits all equal to fill.
EgBits(k, fill) == [j \in 1..k |-> 0] \o <<1>> \o [j \in 1..k |-> fill]

\* k 0 bits, a 1 bit, and k suffix bits, 1 bits but the last: an odd codeNum.
EgOdd(k) == [j \in 1..k |-> 0] \o <<1>> \o [j \in 1..k |-> IF j = k THEN 0 ELSE 1]

\* The sources of tests::bitreader_has_more_data and tests::read_ue_overflow.
TestSources ==
    { <<18, 128>>, <<24>>, <<128, 0, 0>>, <<0, 0, 0, 0, 255, 255, 255, 255, 255>> }

\* The byte values of the short sources.
SrcByte == {0, 1, 18, 64, 128, 255}

(* The sources: the tests', every short sequence of SrcByte, and codes     *)
(* ue(v) followed by the rbsp_stop_one_bit: those of the small codeNums,   *)
(* and for every prefix length the least codeNum, the greatest and the     *)
(* greatest odd one.                                                       *)
Sources ==
    TestSources
    \cup BoundedSeq(SrcByte, MaxSrcBytes)
    \cup { Pack(EgEncode(n) \o <<1>>) : n \in 0..MaxCodeNum }
    \cup { Pack(EgBits(k, fill) \o <<1>>) : k \in 0..MaxLeadingZeros, fill \in {0, 1} }
    \cup { Pack(EgOdd(k) \o <<1>>) : k \in 1..MaxLeadingZeros }

----------------------------------------------------------------------------
(* The loops, step by step: the while of find_three, the while of          *)
(* RbspDecoder::push and the slow path of ByteReader::fill_buf, one        *)
(* iteration a step. pc is the statement the control is at. frame holds    *)
(* what find_three works on: state and i, which it is given by &mut (the   *)
(* object's state, and push's local i or the ByteReader's i), and chunk;   *)
(* found is what it returned, ra where it returns to, state0 and i0 the    *)
(* state and i it was called with. session holds the object called (kind), *)
(* push's local buf, the ByteReader's inner, and the history of the call:  *)
(* op, the buffer given (arg), the spans emitted, the run returned, what   *)
(* state, i and inner were at the call (entry), and the number of bytes    *)
(* received.                                                               *)

\* The longest chunk find_three is called with on its own.
MaxChunkLen == 4

\* The bytes of a session: those pushed to an RbspDecoder, those of a ByteReader's inner source.
MaxStepBytes == 4

no_frame ==
    [state |-> "Start", i |-> 0, chunk |-> <<>>, found |-> FALSE, ra |-> "off",
     state0 |-> "Start", i0 |-> 0]

no_session ==
    [kind |-> "none", op |-> "new", buf |-> <<>>, arg |-> <<>>, spans |-> <<>>,
     inner |-> [data |-> <<>>, cuts |-> {}, pos |-> 0], run |-> <<>>,
     entry |-> [state |-> "Start", i |-> 0, inner |-> [data |-> <<>>, cuts |-> {}, pos |-> 0]],
     received |-> 0]

\* The call find_three(&mut state, &mut i, chunk), to return to ra.
call_find_three(chunk, ra) ==
    [frame EXCEPT !.chunk = chunk, !.ra = ra, !.found = FALSE,
                  !.state0 = frame.state, !.i0 = frame.i]

(* A mutant of find_three: the first 00 found in Start takes the state to  *)
(* TwoZero.                                                                *)
find_three_step_miscounts ==
    /\ pc = "find_three"
    /\ IF ~(frame.i < Len(frame.chunk))
       THEN /\ frame' = [frame EXCEPT !.found = FALSE]
            /\ pc' = frame.ra
       ELSE CASE frame.state = "Start" ->
                   LET nonzero_len == memchr(0, Slice(frame.chunk, frame.i, Len(frame.chunk)))
                   IN  IF nonzero_len # -1
                       THEN /\ frame' = [frame EXCEPT !.i = @ + nonzero_len + 1,
                                                      !.state = "TwoZero"]
                            /\ pc' = pc
                       ELSE /\ frame' = [frame EXCEPT !.i = Len(frame.chunk),
                                                      !.found = FALSE]
                            /\ pc' = frame.ra
              [] frame.state = "OneZero" ->
                   /\ frame' = [frame EXCEPT
                                  !.state = IF frame.chunk[frame.i + 1] = 0
                                            THEN "TwoZero" ELSE "Start",
                                  !.i = @ + 1]
                   /\ pc' = pc
              [] frame.state = "TwoZero" ->
                   IF frame.chunk[frame.i + 1] = 3
                   THEN /\ frame' = [frame EXCEPT !.found = TRUE]
                        /\ pc' = frame.ra
                   ELSE /\ frame' = [frame EXCEPT !.state = "Start", !.i = @ + 1]
                        /\ pc' = pc
              [] OTHER ->
                   /\ pc' = "unreachable"
                   /\ frame' = frame
    /\ UNCHANGED session
    /\ UNCHANGED <<pushVars, pullVars, nalVars, bitVars>>

(* find_three, from its while: the return of false at the end of chunk,   *)
(* or one iteration: the match on *state and the *i += 1, the break of     *)
(* Start (false is returned), the return of true, or unreachable!().       *)
find_three_step ==
    /\ pc = "find_three"
    /\ IF ~(frame.i < Len(frame.chunk))
       THEN /\ frame' = [frame EXCEPT !.found = FALSE]
            /\ pc' = frame.ra
       ELSE CASE frame.state = "Start" ->
                   LET nonzero_len == memchr(0, Slice(frame.chunk, frame.i, Len(frame.chunk)))
                   IN  IF nonzero_len # -1
                       THEN /\ frame' = [frame EXCEPT !.i = @ + nonzero_len + 1,
                                                      !.state = "OneZero"]
                            /\ pc' = pc
                       ELSE /\ frame' = [frame EXCEPT !.i = Len(frame.chunk),
                                                      !.found = FALSE]
                            /\ pc' = frame.ra
              [] frame.state = "OneZero" ->
                   /\ frame' = [frame EXCEPT
                                  !.state = IF frame.chunk[frame.i + 1] = 0
                                            THEN "TwoZero" ELSE "Start",
                                  !.i = @ + 1]
                   /\ pc' = pc
              [] frame.state = "TwoZero" ->
                   IF frame.chunk[frame.i + 1] = 3
                   THEN /\ frame' = [frame EXCEPT !.found = TRUE]
                        /\ pc' = frame.ra
                   ELSE /\ frame' = [frame EXCEPT !.state = "Start", !.i = @ + 1]
                        /\ pc' = pc
              [] OTHER ->
                   /\ pc' = "unreachable"
                   /\ frame' = frame
    /\ UNCHANGED session
    /\ UNCHANGED <<pushVars, pullVars, nalVars, bitVars>>

\* The object of the session is at rest, and may be called.
MayCall(kind) ==
    /\ pc = "idle"
    /\ session.kind = kind

\* RbspDecoder::start, on the automaton.
start_call ==
    /\ MayCall("RbspDecoder")
    /\ frame' = [frame EXCEPT !.state = "Start"]
    /\ session' = [session EXCEPT !.op = "start"]
    /\ UNCHANGED pc
    /\ UNCHANGED <<pushVars, pullVars, nalVars, bitVars>>

\* RbspDecoder::end, on the automaton.
end_call ==
    /\ MayCall("RbspDecoder")
    /\ frame' = [frame EXCEPT !.state = "Start"]
    /\ session' = [session EXCEPT !.op = "end"]
    /\ UNCHANGED pc
    /\ UNCHANGED <<pushVars, pullVars, nalVars, bitVars>>

\* RbspDecoder::push(buf), to its while: let mut i = 0.
push_call(buf) ==
    /\ MayCall("RbspDecoder")
    /\ session.received + Len(buf) <= MaxStepBytes
    /\ frame' = [frame EXCEPT !.i = 0]
    /\ session' = [session EXCEPT !.op = "push", !.buf = buf, !.arg = buf,
                                  !.spans = <<>>,
                                  !.entry = [@ EXCEPT !.state = frame.state, !.i = 0],
                                  !.received = @ + Len(buf)]
    /\ pc' = "push"
    /\ UNCHANGED <<pushVars, pullVars, nalVars, bitVars>>

(* RbspDecoder::push at while i < buf.len(): the call of find_three, or,   *)
(* the loop left, the last emit and the return.                            *)
push_while ==
    /\ pc = "push"
    /\ IF frame.i < Len(session.buf)
       THEN /\ frame' = call_find_three(session.buf, "push_found")
            /\ pc' = "find_three"
            /\ UNCHANGED session
       ELSE /\ session' = [session EXCEPT !.spans = @ \o emit(session.buf)]
            /\ pc' = "idle"
            /\ UNCHANGED frame
    /\ UNCHANGED <<pushVars, pullVars, nalVars, bitVars>>

(* A mutant of push: after a match buf is three_onward, the matched byte   *)
(* with it, and the state is left as it is.                                *)
push_found_keeps_three ==
    /\ pc = "push_found"
    /\ IF frame.found
       THEN LET rbsp == Slice(session.buf, 0, frame.i)
                three_onward == Slice(session.buf, frame.i, Len(session.buf))
            IN  /\ session' = [session EXCEPT !.spans = @ \o emit(rbsp),
                                              !.buf = three_onward]
                /\ frame' = [frame EXCEPT !.i = 0]
       ELSE UNCHANGED <<frame, session>>
    /\ pc' = "push"
    /\ UNCHANGED <<pushVars, pullVars, nalVars, bitVars>>

(* RbspDecoder::push when find_three has returned: on true, the split, the *)
(* emit of rbsp, buf = &three_onward[1..], i = 0 and the state Start; and  *)
(* back to the while.                                                      *)
push_found ==
    /\ pc = "push_found"
    /\ IF frame.found
       THEN LET rbsp == Slice(session.buf, 0, frame.i)
                three_onward == Slice(session.buf, frame.i, Len(session.buf))
            IN  /\ session' = [session EXCEPT !.spans = @ \o emit(rbsp),
                                              !.buf = Tail(three_onward)]
                /\ frame' = [frame EXCEPT !.i = 0, !.state = "Start"]
       ELSE UNCHANGED <<frame, session>>
    /\ pc' = "push"
    /\ UNCHANGED <<pushVars, pullVars, nalVars, bitVars>>

\* ByteReader::fill_buf, to its while.
fill_buf_call ==
    /\ MayCall("ByteReader")
    /\ session' = [session EXCEPT !.op = "fill_buf",
                                  !.entry = [state |-> frame.state, i |-> frame.i,
                                             inner |-> session.inner]]
    /\ pc' = "fill_buf"
    /\ UNCHANGED frame
    /\ UNCHANGED <<pushVars, pullVars, nalVars, bitVars>>

(* A mutant of fill_buf: the slow path does not look for Skip, and calls   *)
(* find_three in every state.                                              *)
fill_buf_while_no_skip_check ==
    /\ pc = "fill_buf"
    /\ \E chunk \in {inner_fill_buf(session.inner)} :
          IF frame.i = 0
          THEN IF chunk = <<>>
               THEN /\ session' = [session EXCEPT !.run = <<>>]
                    /\ pc' = "idle"
                    /\ UNCHANGED frame
               ELSE /\ frame' = call_find_three(chunk, "fill_buf_found")
                    /\ pc' = "find_three"
                    /\ UNCHANGED session
          ELSE IF frame.i <= Len(chunk)
               THEN /\ session' = [session EXCEPT !.run = Slice(chunk, 0, frame.i)]
                    /\ pc' = "idle"
                    /\ UNCHANGED frame
               ELSE /\ pc' = "panic"
                    /\ UNCHANGED <<frame, session>>
    /\ UNCHANGED <<pushVars, pullVars, nalVars, bitVars>>

(* ByteReader::fill_buf at while self.i == 0: in the slow path, the return *)
(* of the empty run at the end of the inner source, the discard of a byte  *)
(* in Skip (and continue), or the call of find_three; the loop left, the   *)
(* return of the run, the slice of which panics past the chunk's end.      *)
fill_buf_while ==
    /\ pc = "fill_buf"
    /\ \E chunk \in {inner_fill_buf(session.inner)} :
          IF frame.i = 0
          THEN IF chunk = <<>>
               THEN /\ session' = [session EXCEPT !.run = <<>>]
                    /\ pc' = "idle"
                    /\ UNCHANGED frame
               ELSE IF frame.state = "Skip"
               THEN /\ session' = [session EXCEPT !.inner = inner_consume(@, 1)]
                    /\ frame' = [frame EXCEPT !.state = "Start"]
                    /\ pc' = "fill_buf"
               ELSE /\ frame' = call_find_three(chunk, "fill_buf_found")
                    /\ pc' = "find_three"
                    /\ UNCHANGED session
          ELSE IF frame.i <= Len(chunk)
               THEN /\ session' = [session EXCEPT !.run = Slice(chunk, 0, frame.i)]
                    /\ pc' = "idle"
                    /\ UNCHANGED frame
               ELSE /\ pc' = "panic"
                    /\ UNCHANGED <<frame, session>>
    /\ UNCHANGED <<pushVars, pullVars, nalVars, bitVars>>

(* ByteReader::fill_buf when find_three has returned: on true the state is *)
(* Skip; and back to the while.                                            *)
fill_buf_found ==
    /\ pc = "fill_buf_found"
    /\ frame' = [frame EXCEPT !.state = IF frame.found THEN "Skip" ELSE @]
    /\ pc' = "fill_buf"
    /\ UNCHANGED session
    /\ UNCHANGED <<pushVars, pullVars, nalVars, bitVars>>

(* ByteReader::consume(amt), amt no more than what is left of the run      *)
(* fill_buf returned; the unwrap of checked_sub panics.                    *)
consume_call(amt) ==
    /\ MayCall("ByteReader")
    /\ amt <= Len(session.run)
    /\ IF amt <= frame.i
       THEN /\ frame' = [frame EXCEPT !.i = @ - amt]
            /\ session' = [session EXCEPT !.op = "consume",
                                          !.inner = inner_consume(@, amt),
                                          !.run = SubSeq(@, amt + 1, Len(@))]
            /\ UNCHANGED pc
       ELSE /\ pc' = "panic"
            /\ UNCHANGED <<frame, session>>
    /\ UNCHANGED <<pushVars, pullVars, nalVars, bitVars>>

----------------------------------------------------------------------------
(* The specifications: one per component, the other components not in use. *)

\* RbspDecoder::new over a handler that has received nothing.
InitPush ==
    /\ decoder = [state |-> "Start"]
    /\ nal_reader = [started |-> 0, ended |-> 0, header |-> 0, spans |-> <<>>]
    /\ pushed = <<>>
    /\ lastCall = [op |-> "new"]
    /\ lifecycle = [starts |-> 0, ends |-> 0, stateBefore |-> "Start"]
    /\ reader = new_reader
    /\ inner = [data |-> <<>>, cuts |-> {}, pos |-> 0]
    /\ offered = <<>>
    /\ out = <<>>
    /\ lastRead = [op |-> "new"]
    /\ nal_unit = <<>>
    /\ dstate = new_DecoderState(<<>>)
    /\ nal_pc = "idle"
    /\ forwarded = <<>>
    /\ forwardedAt = <<>>
    /\ src = <<>>
    /\ bit_reader = [pos |-> 0, failed |-> FALSE]
    /\ ret = [op |-> "new"]
    /\ twin = [rd |-> [pos |-> 0, failed |-> FALSE], ret |-> [op |-> "new"]]
    /\ probes = 0
    /\ pc = "off"
    /\ frame = no_frame
    /\ session = no_session

NextPush ==
    \/ \E header \in Header : start(header)
    \/ \E n \in 0..(MaxUnitLen - Len(pushed)) : \E buf \in [1..n -> Byte] : push(buf)
    \/ end

SpecPush == InitPush /\ [][NextPush]_vars

\* ByteReader::new over an inner source that has delivered nothing.
InitPull ==
    /\ reader = new_reader
    /\ \E n \in 0..MaxInnerLen : \E data \in [1..n -> Byte] :
         \E cuts \in SUBSET (1..(n - 1)) :
            inner = [data |-> data, cuts |-> cuts, pos |-> 0]
    /\ offered = <<>>
    /\ out = <<>>
    /\ lastRead = [op |-> "new"]
    /\ decoder = [state |-> "Start"]
    /\ nal_reader = [started |-> 0, ended |-> 0, header |-> 0, spans |-> <<>>]
    /\ pushed = <<>>
    /\ lastCall = [op |-> "new"]
    /\ lifecycle = [starts |-> 0, ends |-> 0, stateBefore |-> "Start"]
    /\ nal_unit = <<>>
    /\ dstate = new_DecoderState(<<>>)
    /\ nal_pc = "idle"
    /\ forwarded = <<>>
    /\ forwardedAt = <<>>
    /\ src = <<>>
    /\ bit_reader = [pos |-> 0, failed |-> FALSE]
    /\ ret = [op |-> "new"]
    /\ twin = [rd |-> [pos |-> 0, failed |-> FALSE], ret |-> [op |-> "new"]]
    /\ probes = 0
    /\ pc = "off"
    /\ frame = no_frame
    /\ session = no_session

NextPull ==
    \/ fill_buf
    \/ \E amt \in 0..Len(offered) : consume(amt)
    \/ \E buflen \in 1..MaxReadBuf : read(buflen)

SpecPull == InitPull /\ [][NextPull]_vars

(* decode_nal(nal_unit), at its RbspDecoder::new(DecoderState::new(        *)
(* Cow::Borrowed(nal_unit))).                                              *)
InitNal ==
    /\ nal_unit \in BoundedSeq(Byte, MaxNalLen)
    /\ dstate = new_DecoderState(nal_unit)
    /\ nal_pc = "new"
    /\ forwarded = <<>>
    /\ forwardedAt = <<>>
    /\ decoder = [state |-> "Start"]
    /\ nal_reader = [started |-> 0, ended |-> 0, header |-> 0, spans |-> <<>>]
    /\ pushed = <<>>
    /\ lastCall = [op |-> "new"]
    /\ lifecycle = [starts |-> 0, ends |-> 0, stateBefore |-> "Start"]
    /\ reader = new_reader
    /\ inner = [data |-> <<>>, cuts |-> {}, pos |-> 0]
    /\ offered = <<>>
    /\ out = <<>>
    /\ lastRead = [op |-> "new"]
    /\ src = <<>>
    /\ bit_reader = [pos |-> 0, failed |-> FALSE]
    /\ ret = [op |-> "new"]
    /\ twin = [rd |-> [pos |-> 0, failed |-> FALSE], ret |-> [op |-> "new"]]
    /\ probes = 0
    /\ pc = "off"
    /\ frame = no_frame
    /\ session = no_session

NextNal ==
    \/ decode_nal_push
    \/ decode_nal_end

SpecNal == InitNal /\ [][NextNal]_vars

\* BitReader::new(src)
InitBits ==
    /\ src \in Sources
    /\ bit_reader = [pos |-> 0, failed |-> FALSE]
    /\ ret = [op |-> "new"]
    /\ twin = [rd |-> [pos |-> 0, failed |-> FALSE], ret |-> [op |-> "new"]]
    /\ probes = 0
    /\ decoder = [state |-> "Start"]
    /\ nal_reader = [started |-> 0, ended |-> 0, header |-> 0, spans |-> <<>>]
    /\ pushed = <<>>
    /\ lastCall = [op |-> "new"]
    /\ lifecycle = [starts |-> 0, ends |-> 0, stateBefore |-> "Start"]
    /\ reader = new_reader
    /\ inner = [data |-> <<>>, cuts |-> {}, pos |-> 0]
    /\ offered = <<>>
    /\ out = <<>>
    /\ lastRead = [op |-> "new"]
    /\ nal_unit = <<>>
    /\ dstate = new_DecoderState(<<>>)
    /\ nal_pc = "idle"
    /\ forwarded = <<>>
    /\ forwardedAt = <<>>
    /\ pc = "off"
    /\ frame = no_frame
    /\ session = no_session

NextBits ==
    \/ read_bool
    \/ \E bit_count \in {4, 8} : read_u8(bit_count)
    \/ read_ue
    \/ read_se
    \/ has_more_rbsp_data

SpecBits == InitBits /\ [][NextBits]_vars

(* A call find_three(&mut state, &mut i, chunk), at its while: state one   *)
(* of the three states of the automaton, i an offset of chunk.             *)
InitFind ==
    /\ pc = "find_three"
    /\ \E st \in ParseState \ {"Skip"} : \E chunk \in BoundedSeq(Byte, MaxChunkLen) :
         \E at \in 0..Len(chunk) :
            frame = [state |-> st, i |-> at, chunk |-> chunk, found |-> FALSE,
                     ra |-> "returned", state0 |-> st, i0 |-> at]
    /\ session = no_session
    /\ decoder = [state |-> "Start"]
    /\ nal_reader = [started |-> 0, ended |-> 0, header |-> 0, spans |-> <<>>]
    /\ pushed = <<>>
    /\ lastCall = [op |-> "new"]
    /\ lifecycle = [starts |-> 0, ends |-> 0, stateBefore |-> "Start"]
    /\ reader = new_reader
    /\ inner = [data |-> <<>>, cuts |-> {}, pos |-> 0]
    /\ offered = <<>>
    /\ out = <<>>
    /\ lastRead = [op |-> "new"]
    /\ nal_unit = <<>>
    /\ dstate = new_DecoderState(<<>>)
    /\ nal_pc = "idle"
    /\ forwarded = <<>>
    /\ forwardedAt = <<>>
    /\ src = <<>>
    /\ bit_reader = [pos |-> 0, failed |-> FALSE]
    /\ ret = [op |-> "new"]
    /\ twin = [rd |-> [pos |-> 0, failed |-> FALSE], ret |-> [op |-> "new"]]
    /\ probes = 0

NextFind == find_three_step

SpecFind == InitFind /\ [][NextFind]_vars

(* An object at rest after its construction: RbspDecoder::new, or          *)
(* ByteReader::new over an inner source that has delivered nothing.        *)
InitLoops ==
    /\ pc = "idle"
    /\ \E kind \in {"RbspDecoder", "ByteReader"} :
         IF kind = "RbspDecoder"
         THEN /\ frame = [no_frame EXCEPT !.state = "Start"]
              /\ session = [no_session EXCEPT !.kind = kind]
         ELSE /\ frame = [no_frame EXCEPT !.state = new_reader.state, !.i = new_reader.i]
              /\ \E n \in 0..MaxStepBytes : \E data \in [1..n -> Byte] :
                   \E cuts \in SUBSET (1..(n - 1)) :
                      session = [no_session EXCEPT
                                    !.kind = kind,
                                    !.inner = [data |-> data, cuts |-> cuts, pos |-> 0]]
    /\ decoder = [state |-> "Start"]
    /\ nal_reader = [started |-> 0, ended |-> 0, header |-> 0, spans |-> <<>>]
    /\ pushed = <<>>
    /\ lastCall = [op |-> "new"]
    /\ lifecycle = [starts |-> 0, ends |-> 0, stateBefore |-> "Start"]
    /\ reader = new_reader
    /\ inner = [data |-> <<>>, cuts |-> {}, pos |-> 0]
    /\ offered = <<>>
    /\ out = <<>>
    /\ lastRead = [op |-> "new"]
    /\ nal_unit = <<>>
    /\ dstate = new_DecoderState(<<>>)
    /\ nal_pc = "idle"
    /\ forwarded = <<>>
    /\ forwardedAt = <<>>
    /\ src = <<>>
    /\ bit_reader = [pos |-> 0, failed |-> FALSE]
    /\ ret = [op |-> "new"]
    /\ twin = [rd |-> [pos |-> 0, failed |-> FALSE], ret |-> [op |-> "new"]]
    /\ probes = 0

NextLoops ==
    \/ start_call
    \/ end_call
    \/ \E n \in 0..(MaxStepBytes - session.received) : \E buf \in [1..n -> Byte] :
          push_call(buf)
    \/ push_while
    \/ push_found
    \/ find_three_step
    \/ fill_buf_call
    \/ fill_buf_while
    \/ fill_buf_found
    \/ \E amt \in 0..Len(session.run) : consume_call(amt)

SpecLoops == InitLoops /\ [][NextLoops]_vars

(* The steps of a call that has begun: the caller's thread runs them, and  *)
(* does not stop between two statements.                                   *)
Running ==
    \/ push_while
    \/ push_found
    \/ find_three_step
    \/ fill_buf_while
    \/ fill_buf_found

SpecLoopsLive == InitLoops /\ [][NextLoops]_vars /\ WF_vars(Running)

----------------------------------------------------------------------------
(* The push filter: C1, C6, C7 (under SpecPush).                           *)

\* What one push() of the whole of bytes forwards to a fresh decoder's handler.
PushedAtOnce(bytes) == Concat(push_loop("Start", bytes).spans)

(* C1: push-path chunk invariance. On a fresh decoder, however the bytes   *)
(* were divided into push() calls, the concatenation of the spans          *)
(* forwarded downstream is the concatenation forwarded when the same bytes *)
(* are given in one single push() call.                                    *)
C1_PushChunkInvariance ==
    lifecycle.starts + lifecycle.ends = 0
        => Concat(nal_reader.spans) = PushedAtOnce(pushed)

(* C1's case: 01 00 00 | 03 01, the pattern divided between two push()     *)
(* calls.                                                                  *)
C1_Witness ==
    /\ lifecycle.starts + lifecycle.ends = 0
    /\ lastCall.op = "push" /\ lastCall.buf = <<3, 1>>
    /\ pushed = <<1, 0, 0, 3, 1>>
    /\ Concat(nal_reader.spans) = <<1, 0, 0, 1>>

(* C6: unit isolation. After start() and after end() the automaton is in   *)
(* Start; every start() and end() has been forwarded downstream exactly    *)
(* once (start() with its header); and what a unit's push() calls forward  *)
(* is what a fresh decoder forwards for the unit's own bytes, whatever was *)
(* pushed before the unit began.                                           *)
C6_UnitIsolation ==
    /\ lastCall.op \in {"start", "end"} => decoder.state = "Start"
    /\ lastCall.op = "start" => nal_reader.header = lastCall.header
    /\ nal_reader.started = lifecycle.starts
    /\ nal_reader.ended = lifecycle.ends
    /\ lifecycle.starts + lifecycle.ends > 0
        => Concat(nal_reader.spans) = PushedAtOnce(pushed)

(* C6's case: the bytes before the unit ended with 00 00, and the unit     *)
(* starts with 03, which is forwarded.                                     *)
C6_Witness ==
    /\ lifecycle.stateBefore = "TwoZero"
    /\ lastCall.op = "push"
    /\ pushed = <<3, 1>>
    /\ nal_reader.spans = << <<3, 1>> >>

(* C7: every push() call received by the downstream handler carries a      *)
(* non-empty span.                                                         *)
C7_SpansNonEmpty ==
    \A k \in 1..Len(nal_reader.spans) : nal_reader.spans[k] # <<>>

(* C7's case: a push() of the matched 03 alone, after 00 00: nothing is    *)
(* left to forward, and no call is made.                                   *)
C7_Witness ==
    /\ lastCall.op = "push" /\ lastCall.buf = <<3>>
    /\ pushed = <<0, 0, 3>>
    /\ nal_reader.spans = << <<0, 0>> >>

(* The number of consecutive 00 bytes that end just before offset p of     *)
(* bytes and begin at offset lo or later.                                  *)
RECURSIVE ZeroRun(_, _, _)
ZeroRun(bytes, p, lo) ==
    IF p > lo /\ bytes[p] = 0 THEN 1 + ZeroRun(bytes, p - 1, lo) ELSE 0

(* The byte at offset p of bytes is an emulation prevention byte: a 03     *)
(* after two 00 bytes, where the count of 00 bytes begins at offset lo and *)
(* begins again after a third 00.                                          *)
IsEscapeAt(bytes, p, lo) ==
    /\ bytes[p + 1] = 3
    /\ ZeroRun(bytes, p, lo) % 3 = 2

\* The first n bytes of bytes without the emulation prevention bytes.
RECURSIVE KeptUpTo(_, _)
KeptUpTo(bytes, n) ==
    IF n = 0 THEN <<>>
    ELSE KeptUpTo(bytes, n - 1)
            \o (IF IsEscapeAt(bytes, n - 1, 0) THEN <<>> ELSE <<bytes[n]>>)

\* The bytes forwarded downstream in the unit so far.
Forwarded == Concat(nal_reader.spans)

(* C15: the three-zero anomaly is not fatal. No push() panics; a 00 met in *)
(* TwoZero is forwarded like any 00 and leaves the automaton in Start, the *)
(* count of 00 bytes beginning again with the next; and a 03 that follows  *)
(* exactly three 00 bytes is forwarded as data, after the three 00.        *)
C15_ThreeZerosNotFatal ==
    /\ lastCall.op = "push" => ~lastCall.panic
    /\ ZeroRun(pushed, Len(pushed), 0) >= 3
          => decoder.state
               = <<"Start", "OneZero", "TwoZero">>[(ZeroRun(pushed, Len(pushed), 0) % 3) + 1]
    /\ Cardinality({p \in 1..Len(Forwarded) : Forwarded[p] = 0})
          = Cardinality({p \in 1..Len(pushed) : pushed[p] = 0})
    /\ \A p \in 1..Len(pushed) :
          (pushed[p] = 3 /\ ZeroRun(pushed, p - 1, 0) = 3)
              => LET o == p - Cardinality({q \in 1..(p - 1) : IsEscapeAt(pushed, q - 1, 0)})
                 IN  /\ o <= Len(Forwarded)
                     /\ SubSeq(Forwarded, o - 3, o) = <<0, 0, 0, 3>>

(* C15's case: 00 00 | 00 03 01: the third 00 comes in TwoZero, at the     *)
(* start of the second push(); all five bytes are forwarded.               *)
C15_Witness ==
    /\ lastCall.op = "push" /\ lastCall.buf = <<0, 3, 1>>
    /\ pushed = <<0, 0, 0, 3, 1>>
    /\ Forwarded = <<0, 0, 0, 3, 1>>
    /\ decoder.state = "Start"

(* C16: the push filter holds nothing back. After every push() the bytes   *)
(* forwarded in the unit are the bytes received in it without the matched  *)
(* 03 bytes, in order and once each: as many as received less the matches, *)
(* also when the bytes received end with one or two unmatched 00.          *)
C16_NothingHeldBack ==
    /\ Forwarded = KeptUpTo(pushed, Len(pushed))
    /\ lastCall.op = "push"
          => /\ ~lastCall.panic
             /\ Len(Forwarded) = Len(pushed) - lastCall.matches
             /\ lastCall.matches
                   = Cardinality({p \in 1..Len(pushed) : IsEscapeAt(pushed, p - 1, 0)})

(* C16's case: 00 00 03 00 | 00, a match and then two unmatched 00 bytes   *)
(* at the end: every byte but the 03 has been forwarded.                   *)
C16_Witness ==
    /\ lastCall.op = "push" /\ lastCall.buf = <<0>>
    /\ pushed = <<0, 0, 3, 0, 0>>
    /\ lastCall.matches = 1
    /\ decoder.state = "TwoZero"
    /\ Forwarded = <<0, 0, 0, 0>>

----------------------------------------------------------------------------
(* The pull filter: C2, C5 (under SpecPull).                               *)

\* The last fill_buf() or read() returned no byte: the end of the data.
AtEnd == lastRead.op \in {"fill_buf", "read"} /\ lastRead.n = 0

\* What read_to_end returns when the inner source delivers its data as one chunk.
ReadAsOneChunk ==
    read_to_end(new_reader, [data |-> inner.data, cuts |-> {}, pos |-> 0])

(* C2: pull-path chunk invariance. However the inner source divides its    *)
(* data into chunks, and however the caller reads, the bytes read (and     *)
(* those offered) are a prefix of what is read when the data comes as one  *)
(* chunk, and at the end of the data they are all of it.                   *)
C2_PullChunkInvariance ==
    /\ IsPrefix(out \o offered, ReadAsOneChunk)
    /\ AtEnd => out = ReadAsOneChunk

(* C2's case: 01 00 00 | 03 01, the matched 03 at offset 0 of the second   *)
(* chunk, read to the end.                                                 *)
C2_Witness ==
    /\ inner.data = <<1, 0, 0, 3, 1>> /\ inner.cuts = {3}
    /\ AtEnd
    /\ out = <<0, 0, 1>>

RbspOffsets == {q \in 1..(Len(inner.data) - 1) : ~IsEscapeAt(inner.data, q, 1)}

(* The end of the run at the inner source's position: the first emulation  *)
(* prevention byte of the current chunk, or the chunk's end.               *)
RunEnd ==
    LET stops == {q \in inner.pos..(ChunkEnd(inner) - 1) : IsEscapeAt(inner.data, q, 1)}
                     \cup {ChunkEnd(inner)}
    IN  CHOOSE q \in stops : \A r \in stops : q <= r

(* C13: fill_buf returns an empty run only when the inner source is        *)
(* exhausted, and a non-empty run whenever RBSP bytes remain; the run it   *)
(* returns is the inner source's current chunk up to, and without, its     *)
(* first emulation prevention byte, or the whole chunk when it has none.   *)
C13_FillBufRun ==
    lastRead.op = "fill_buf"
        => /\ ~lastRead.panic
           /\ offered = <<>> => inner.pos = Len(inner.data)
           /\ (\E q \in RbspOffsets : q >= inner.pos) => offered # <<>>
           /\ offered = Slice(inner.data, inner.pos, RunEnd)

(* C13's case: 01 00 00 | 03 01, the 00 00 consumed: the matched 03 is at  *)
(* offset 0 of the inner chunk, and fill_buf returns the 01 after it.      *)
C13_Witness ==
    /\ inner.data = <<1, 0, 0, 3, 1>> /\ inner.cuts = {3}
    /\ lastRead.op = "fill_buf"
    /\ out = <<0, 0>>
    /\ inner.pos = 4
    /\ offered = <<1>>

\* What read_to_end returns from the inner source, every run consumed whole.
ReadWhole == read_to_end(new_reader, [inner EXCEPT !.pos = 0])

(* C18: consumption in parts. Whatever part of the offered run each        *)
(* consume takes, consume(N) advances the inner source by N, the confirmed *)
(* count is the length of what is left of the run and no more than the     *)
(* inner source's chunk, no consume panics, and the bytes consumed are     *)
(* those consumed when every run is consumed whole.                        *)
C18_PartialConsume ==
    /\ [](/\ lastRead.op # "new" => ~lastRead.panic
          /\ reader.i = Len(offered)
          /\ reader.i <= Len(inner_fill_buf(inner))
          /\ offered = Slice(inner_fill_buf(inner), 0, reader.i)
          /\ IsPrefix(out \o offered, ReadWhole)
          /\ AtEnd => out = ReadWhole)
    /\ [][lastRead'.op = "consume" => inner'.pos = inner.pos + lastRead'.n]_vars

(* C18's case: 01 00 00 03 01, the run 00 00 that ends before the matched  *)
(* 03, and consume(1): a part of it.                                       *)
C18_Witness ==
    /\ inner.data = <<1, 0, 0, 3, 1>>
    /\ lastRead.op = "consume" /\ lastRead.n = 1
    /\ out = <<0>>
    /\ offered = <<0>>
    /\ reader = [state |-> "Skip", i |-> 1]
    /\ inner.pos = 2

----------------------------------------------------------------------------
(* decode_nal: C3, C4 (under SpecNal).                                     *)

(* C3: decode_nal returns the RBSP. What it returns is the concatenation   *)
(* of the spans its RbspDecoder forwarded, which is what one push() of the *)
(* unit forwards, and its length is the number of bytes written.           *)
C3_DecodeNalReturnsRbsp ==
    nal_pc = "returned"
        => /\ dstate.data = Concat(forwarded)
           /\ dstate.data = PushedAtOnce(nal_unit)
           /\ Len(dstate.data) = dstate.index

\* The number of bytes decode_nal's RbspDecoder dropped from the unit.
Dropped == Len(nal_unit) - Len(Concat(forwarded))

(* C4: the copy-on-write policy of decode_nal. The result is Borrowed, and *)
(* is the input, exactly when no byte was dropped; it is Owned whenever a  *)
(* byte was dropped.                                                       *)
C4_OwnedIffDropped ==
    nal_pc = "returned"
        => /\ dstate.owned <=> Dropped > 0
           /\ ~dstate.owned => dstate.data = nal_unit /\ Dropped = 0

(* C17: the compaction in place of decode_nal is safe. Each span forwarded *)
(* to the DecoderState is written at an offset no greater than the offset  *)
(* it was read at in the input, the range written ends within the buffer   *)
(* (no slice is out of bounds), and the decoded length is no greater than  *)
(* the length of the input.                                                *)
C17_InPlaceCompaction ==
    nal_pc \in {"pushed", "returned"}
        => /\ ~dstate.panic
           /\ Len(dstate.writes) = Len(forwarded)
           /\ Len(forwardedAt) = Len(forwarded)
           /\ \A k \in 1..Len(forwarded) :
                 LET dest == dstate.writes[k]
                     from == forwardedAt[k]
                 IN  /\ forwarded[k] = Slice(nal_unit, from, from + Len(forwarded[k]))
                     /\ dest.hi = dest.lo + Len(forwarded[k])
                     /\ dest.lo <= from
                     /\ dest.hi <= dest.len
           /\ dstate.index <= Len(nal_unit)
           /\ Len(dstate.data) <= Len(nal_unit)

(* C17's case: 00 00 03 01 00: the second span, 01 00, read at offset 3,   *)
(* is written at offset 2, and four bytes are returned.                    *)
C17_Witness ==
    /\ nal_unit = <<0, 0, 3, 1, 0>>
    /\ nal_pc = "returned"
    /\ forwarded = << <<0, 0>>, <<1, 0>> >>
    /\ forwardedAt = <<0, 3>>
    /\ dstate.writes[2] = [lo |-> 2, hi |-> 4, len |-> 5]
    /\ dstate.data = <<0, 0, 1, 0>>

----------------------------------------------------------------------------
(* The BitReader: C8, C9, C10 (under SpecBits).                            *)

(* C8: has_more_rbsp_data returns Ok(true) exactly when there is a 1 bit   *)
(* after the bit at the cursor, and Ok(false), never an error, when there  *)
(* is none: at the end of the source, and before nothing but 0 bits.       *)
C8_HasMoreIffOneBitFollows ==
    ret.op = "has_more_rbsp_data"
        => /\ ret.err = ""
           /\ ret.value <=> \E q \in (ret.from + 1)..(NumBits(src) - 1) : Bit(src, q) = 1

(* C8's case: 80 00 00, the stop bit at the cursor and two bytes of        *)
(* cabac_zero_words after it: false.                                       *)
C8_Witness ==
    /\ src = <<128, 0, 0>>
    /\ ret.op = "has_more_rbsp_data" /\ ret.from = 0
    /\ ret.value = FALSE

(* C9: has_more_rbsp_data does not move the reader. After any calls of it  *)
(* the reader is where a reader is that got the same reads and no          *)
(* has_more_rbsp_data, and the last read returned what that reader's last  *)
(* read returned.                                                          *)
C9_HasMoreLeavesReader ==
    /\ bit_reader = twin.rd
    /\ ret.op \notin {"new", "has_more_rbsp_data"} => ret = twin.ret

(* C9's case: 12 80, has_more_rbsp_data called twice, the second time in   *)
(* the middle of a byte, and then a read of 4 bits that returns the 4 bits *)
(* at the cursor.                                                          *)
C9_Witness ==
    /\ src = <<18, 128>>
    /\ probes = 2
    /\ ret.op = "read_u8" /\ ret.from = 4 /\ ret.err = "" /\ ret.value = 2

\* The u32 of n, 0 <= n < 2^31.
ToU32(n) == [hi |-> n \div 65536, lo |-> n % 65536]

\* The u32 v - 1, v > 0.
Pred(v) == IF v.lo = 0 THEN [hi |-> v.hi - 1, lo |-> 65535] ELSE [hi |-> v.hi, lo |-> v.lo - 1]

\* The u32 2^k + (the k bits from position q), 1 <= k <= 31.
PrefixPlusSuffix(bytes, q, k) ==
    IF k <= 16
    THEN ToU32(Pow2(k) + BitsValue(bytes, q, k))
    ELSE [hi |-> Pow2(k - 16) + BitsValue(bytes, q, k - 16),
          lo |-> BitsValue(bytes, q + k - 16, 16)]

\* The bits of the source from position q on start with bits.
StartsWith(bytes, q, bits) ==
    /\ q + Len(bits) <= NumBits(bytes)
    /\ \A t \in 1..Len(bits) : Bit(bytes, q + t - 1) = bits[t]

\* The codeNums of the round trip: the small ones, and 2^k - 1 and 2^(k+1) - 2, k to 30.
CodeNums ==
    (0..MaxCodeNum) \cup {Pow2(k) - 1 : k \in 1..30} \cup {2 * (Pow2(k) - 1) : k \in 1..30}

(* What read_ue returned is the value of the code whose prefix is k bits   *)
(* equal to lead and then a bit that is not: 0 for k = 0, else 2^k - 1 +   *)
(* the k bits that follow; and the reader is after those.                  *)
UeOfPrefix(lead) ==
    \E k \in 0..MaxUeCount :
        /\ ret.from + 2 * k + 1 <= NumBits(src)
        /\ \A j \in 0..(k - 1) : Bit(src, ret.from + j) = lead
        /\ Bit(src, ret.from + k) = 1 - lead
        /\ ret.value = IF k = 0 THEN ToU32(0)
                                ELSE Pred(PrefixPlusSuffix(src, ret.from + k + 1, k))
        /\ bit_reader.pos = ret.from + 2 * k + 1

(* C10, as amended: read_ue reads a unary prefix of consecutive 0 bits     *)
(* ended by a 1 bit, of length leadingBits; it returns 0 when leadingBits  *)
(* is 0, and else reads leadingBits further bits as suffix and returns     *)
(* (1 << leadingBits) - 1 + suffix; and read at the Exp-Golomb code of a   *)
(* codeNum in [0, 2^31 - 2] it returns codeNum.                            *)
C10_ReadUeZeroPrefix ==
    ret.op = "read_ue"
        => /\ ret.err = "" => UeOfPrefix(0)
           /\ \A n \in CodeNums :
                 StartsWith(src, ret.from, EgEncode(n))
                     => ret.err = "" /\ ret.value = ToU32(n)

(* C10's case: the code of 2^31 - 2, 30 0 bits, a 1 bit and 30 1 bits,     *)
(* read from the start of the source.                                      *)
C10_Witness ==
    /\ ret.op = "read_ue" /\ ret.from = 0 /\ ret.err = ""
    /\ StartsWith(src, 0, EgEncode(2 * (Pow2(30) - 1)))
    /\ ret.value = [hi |-> 32767, lo |-> 65534]
    /\ bit_reader.pos = 61

(* C10 as stated: the unary prefix is of consecutive 1 bits ended by a 0   *)
(* bit.                                                                    *)
C10_ReadUeOnesPrefix ==
    (ret.op = "read_ue" /\ ret.err = "") => UeOfPrefix(1)

(* The bits of the source from position q on are k 0 bits and a 1 bit: a   *)
(* unary prefix of length k.                                               *)
ZeroPrefix(bytes, q, k) ==
    /\ q + k < NumBits(bytes)
    /\ \A j \in 0..(k - 1) : Bit(bytes, q + j) = 0
    /\ Bit(bytes, q + k) = 1

(* C11: the overflow guard of read_ue. It fails with ExpGolombTooLarge     *)
(* exactly when the unary prefix it read is longer than 31; and for a      *)
(* prefix of up to 31 the value (1 << k) - 1 + suffix is computed without  *)
(* wrapping and is at most 2^32 - 2.                                       *)
C11_ReadUeOverflowGuard ==
    ret.op = "read_ue"
        => /\ ret.err = "ExpGolombTooLarge"
                <=> \E k \in 32..NumBits(src) : ZeroPrefix(src, ret.from, k)
           /\ ~ret.overflow
           /\ ret.err = ""
                => /\ ret.value.hi \in 0..65535
                   /\ ret.value.lo \in 0..65535
                   /\ ret.value # [hi |-> 65535, lo |-> 65535]

(* C11's case: the source of tests::read_ue_overflow, a prefix of 32 0     *)
(* bits: the error, and no value.                                          *)
C11_Witness ==
    /\ src = <<0, 0, 0, 0, 255, 255, 255, 255, 255>>
    /\ ret.op = "read_ue" /\ ret.from = 0
    /\ ret.err = "ExpGolombTooLarge"

\* ceil(v / 2) of the u32 v < 2^32 - 1.
CeilHalf(v) == v.hi * 32768 + ((v.lo + 1) \div 2)

\* The se(v) value of codeNum (H.264 9.1.1): 0, 1, -1, 2, -2, ...
SeOf(v) ==
    IF v = [hi |-> 0, lo |-> 0] THEN 0
    ELSE IF v.lo % 2 = 1 THEN CeilHalf(v) ELSE 0 - CeilHalf(v)

(* C12: read_se returns, for the codeNum read_ue returns (the one of the   *)
(* code at the cursor), 0 when codeNum is 0, ceil(codeNum / 2) when it is  *)
(* odd and -ceil(codeNum / 2) when it is even (0, 1, 2, 3, 4 give 0, 1,    *)
(* -1, 2, -2), and no step of it overflows the i32; read_ue's error is     *)
(* returned as it is.                                                      *)
C12_ReadSeMapping ==
    ret.op = "read_se"
        => /\ ret.err = read_ue_at(src, ret.from).err
           /\ \A n \in CodeNums :
                 StartsWith(src, ret.from, EgEncode(n))
                     => ret.err = "" /\ ret.codeNum = ToU32(n)
           /\ ret.err = ""
                => /\ ~ret.overflow
                   /\ ret.value = SeOf(ret.codeNum)
                   /\ \A n \in 0..4 :
                         ret.codeNum = ToU32(n) => ret.value = <<0, 1, -1, 2, -2>>[n + 1]
                   /\ ret.value \in (0 - 2147483647)..2147483647

(* C12's case: the code of 2^32 - 2, the greatest read_ue returns: 31 0    *)
(* bits, a 1 bit and 31 1 bits; read_se returns -(2^31 - 1).               *)
C12_Witness ==
    /\ ret.op = "read_se" /\ ret.from = 0 /\ ret.err = ""
    /\ ZeroPrefix(src, 0, 31)
    /\ ret.codeNum = [hi |-> 65535, lo |-> 65534]
    /\ ret.value = 0 - 2147483647

----------------------------------------------------------------------------
(* The loops, step by step: C14 (under SpecFind), C19 (under SpecLoops),   *)
(* C20 (under SpecLoopsLive).                                              *)

\* The 00 bytes, seen before the call, that a state of the automaton stands for.
StandsFor(st) ==
    CASE st = "OneZero" -> <<0>>
      [] st = "TwoZero" -> <<0, 0>>
      [] OTHER -> <<>>

(* The bytes before the offset i: those the state at the call stands for,  *)
(* in the chunks before this one, and those of chunk from the offset at    *)
(* the call.                                                               *)
Examined == StandsFor(frame.state0) \o Slice(frame.chunk, frame.i0, frame.i)

(* C14: the contract of find_three. Called in Start, OneZero or TwoZero at *)
(* an offset of chunk, it returns true only with i at a 03 byte that comes *)
(* after two 00 bytes (of this chunk, or of those before it that the state *)
(* stands for) and with the state TwoZero, and false only with i the       *)
(* length of chunk; i never decreases and never passes the length of       *)
(* chunk; and it returns what the operator find_three gives.               *)
C14_FindThreeContract ==
    /\ [](/\ pc # "unreachable"
          /\ frame.i0 <= frame.i
          /\ frame.i <= Len(frame.chunk)
          /\ pc = "returned"
                => /\ frame.found
                        => /\ frame.i < Len(frame.chunk)
                           /\ frame.chunk[frame.i + 1] = 3
                           /\ frame.state = "TwoZero"
                           /\ Len(Examined) >= 2
                           /\ SubSeq(Examined, Len(Examined) - 1, Len(Examined)) = <<0, 0>>
                   /\ ~frame.found => frame.i = Len(frame.chunk)
                   /\ find_three(frame.state0, frame.i0, frame.chunk)
                         = [found |-> frame.found, state |-> frame.state, i |-> frame.i,
                            panic |-> FALSE])
    /\ [][frame'.i >= frame.i /\ frame'.i <= Len(frame'.chunk)]_vars

(* C14's case: find_three called in OneZero on 00 03 01: the first of the  *)
(* two 00 bytes was in the chunk before; true, with i at the 03.           *)
C14_Witness ==
    /\ pc = "returned"
    /\ frame.state0 = "OneZero" /\ frame.i0 = 0
    /\ frame.chunk = <<0, 3, 1>>
    /\ frame.found
    /\ frame.i = 1
    /\ frame.state = "TwoZero"

(* C19: find_three is never called in Skip. In every state of a            *)
(* ByteReader and of an RbspDecoder, find_three is called, and runs, in    *)
(* Start, OneZero or TwoZero; unreachable!() is never executed; and the    *)
(* state of an RbspDecoder is never Skip.                                  *)
C19_SkipNeverScanned ==
    /\ pc # "unreachable"
    /\ pc = "find_three"
          => /\ frame.state0 \in {"Start", "OneZero", "TwoZero"}
             /\ frame.state \in {"Start", "OneZero", "TwoZero"}
    /\ session.kind = "RbspDecoder" => frame.state # "Skip"

(* C19's case: a ByteReader over 01 00 00 03, the 00 00 consumed, the next *)
(* fill_buf() called in Skip, the state since the match: the slow path has *)
(* discarded the 03 and returned at the end of the inner source, and       *)
(* find_three was not called.                                              *)
C19_Witness ==
    /\ session.kind = "ByteReader"
    /\ session.inner.data = <<1, 0, 0, 3>>
    /\ session.op = "fill_buf"
    /\ session.entry.state = "Skip"
    /\ session.entry.inner.pos = 3
    /\ session.inner.pos = 4
    /\ pc = "idle"
    /\ frame.state = "Start"

(* C20: the loops of the filters end. Every push() and every fill_buf()    *)
(* that has begun returns, neither having panicked; each iteration of the  *)
(* while of push either has brought i to the end of buf or leaves buf      *)
(* shorter; and what they return is what the operators push_loop and       *)
(* fill_buf_loop give.                                                     *)
C20_LoopsTerminate ==
    /\ (pc # "idle") ~> (pc = "idle")
    /\ [][pc = "push_found"
            => IF frame.found
               THEN Len(session'.buf) < Len(session.buf)
               ELSE frame.i = Len(session.buf)]_vars
    /\ []((pc = "idle" /\ session.op = "push")
            => LET r == push_loop(session.entry.state, session.arg)
               IN  /\ ~r.panic
                   /\ r.state = frame.state
                   /\ r.spans = session.spans)
    /\ []((pc = "idle" /\ session.op = "fill_buf")
            => LET f == fill_buf_loop([state |-> session.entry.state,
                                       i |-> session.entry.i], session.entry.inner)
               IN  /\ ~f.panic
                   /\ f.rd = [state |-> frame.state, i |-> frame.i]
                   /\ f.inn = session.inner
                   /\ f.run = session.run)

(* C20's case: push(00 00 03 00) has returned, after two iterations of its *)
(* while: a match, and then the end of what is left of buf.                *)
C20_Witness ==
    /\ pc = "idle"
    /\ session.op = "push"
    /\ session.arg = <<0, 0, 3, 0>>
    /\ session.buf = <<0>>
    /\ session.spans = << <<0, 0>>, <<0>> >>
    /\ frame.state = "OneZero"

====
